---- MODULE Spec2Model ----
(***************************************************************************)
(* The home page of the blog: the Home component (the summary cards, the   *)
(* "No posts found." message, the "All Posts" link, the newsletter form),  *)
(* the SearchButton component, and the listing pipeline that feeds Home    *)
(* (Content Store -> Listing Assembler -> Home).                           *)
(*                                                                         *)
(* Two specifications:                                                     *)
(*   Spec          Home and SearchButton rendered on arbitrary props       *)
(*   PipelineSpec  Home rendered on the Listing Assembler's output         *)
(***************************************************************************)
EXTENDS Integers, Sequences, FiniteSets, TLC

VARIABLES
    siteMetadata,   \* the site configuration (module-level static state)
    store,          \* Content Store: the documents, in the order the store yields them
    posts,          \* the posts prop of Home
    home,           \* what Home rendered, <<>> while nothing is rendered
    search,         \* what SearchButton rendered, <<>> while nothing is rendered
    pc,             \* "store": documents materialised, "props": posts handed to Home
    runs            \* how many times the Listing Assembler has run

vars == <<siteMetadata, store, posts, home, search, pc, runs>>

----------------------------------------------------------------------------
(* Bounds *)

\* longest posts prop handed to Home in Spec
MaxPosts == 6

\* largest Content Store in PipelineSpec
MaxStore == 6

\* builds/requests in PipelineSpec
MaxRuns == 2

----------------------------------------------------------------------------
(* Small helpers *)

Min(a, b) == IF a < b THEN a ELSE b

SeqsUpTo(S, n) == UNION {[1..k -> S] : k \in 0..n}

Range(s) == {s[i] : i \in 1..Len(s)}

\* an optional value is <<>> (undefined) or <<v>>
Undefined == <<>>

\* JavaScript truthiness of an optional string
Truthy(v) == v # Undefined /\ v[1] # ""

----------------------------------------------------------------------------
(* Configuration *)

SearchProviders == {"algolia", "kbar", "elasticsearch"}

NewsletterProviders == {"", "buttondown"}

\* siteMetadata.search and siteMetadata.newsletter are optional objects
SiteConfigs ==
    [ locale     : {"en-US"},
      search     : {Undefined} \cup {<<[provider |-> p]>> : p \in SearchProviders},
      newsletter : {Undefined} \cup {<<[provider |-> p]>> : p \in NewsletterProviders} ]

----------------------------------------------------------------------------
(* Home *)

MAX_DISPLAY == 5

\* formatDate(date, locale): the date written out in the locale
formatDate(date, locale) == [text |-> "long", locale |-> locale, of |-> date]

\* mutant of Card: "Read more" points at the listing
CardReadMoreListing(post, sm) ==
    [ key          |-> post.slug,
      dateTime     |-> post.date,
      dateText     |-> formatDate(post.date, sm.locale),
      titleHref    |-> "/blog/" \o post.slug,
      title        |-> post.title,
      tags         |-> post.tags,
      summary      |-> post.summary,
      readMoreHref |-> "/blog",
      ariaLabel    |-> "Read more: " \o post.title ]

\* one <li> of the list
Card(post, sm) ==
    [ key          |-> post.slug,
      dateTime     |-> post.date,
      dateText     |-> formatDate(post.date, sm.locale),
      titleHref    |-> "/blog/" \o post.slug,
      title        |-> post.title,
      tags         |-> post.tags,
      summary      |-> post.summary,
      readMoreHref |-> "/blog/" \o post.slug,
      ariaLabel    |-> "Read more: " \o post.title ]

\* mutants of Slice: one card short; the first post skipped; the last posts
SliceShort(ps) == SubSeq(ps, 1, Min(Len(ps), MAX_DISPLAY - 1))

SliceSkipFirst(ps) == SubSeq(ps, 2, Min(Len(ps), MAX_DISPLAY))

SliceLast(ps) == SubSeq(ps, Len(ps) - Min(Len(ps), MAX_DISPLAY) + 1, Len(ps))

\* posts.slice(0, MAX_DISPLAY)
Slice(ps) == SubSeq(ps, 1, Min(Len(ps), MAX_DISPLAY))

\* posts.slice(0, MAX_DISPLAY).map(...)
Cards(ps, sm) == [i \in 1..Len(Slice(ps)) |-> Card(Slice(ps)[i], sm)]

\* mutant of Message: the negation lost
MessageNotNegated(ps) == IF Len(ps) # 0 THEN <<"No posts found.">> ELSE Undefined

\* {!posts.length && 'No posts found.'}
Message(ps) == IF Len(ps) = 0 THEN <<"No posts found.">> ELSE Undefined

\* mutant of AllPostsLink: >= for >
AllPostsLinkAtLeast(ps) ==
    IF Len(ps) >= MAX_DISPLAY
    THEN <<[href |-> "/blog", ariaLabel |-> "All posts"]>>
    ELSE Undefined

\* {posts.length > MAX_DISPLAY && (<Link href="/blog" ...>)}
AllPostsLink(ps) ==
    IF Len(ps) > MAX_DISPLAY
    THEN <<[href |-> "/blog", ariaLabel |-> "All posts"]>>
    ELSE Undefined

\* siteMetadata.newsletter?.provider
NewsletterProvider(sm) ==
    IF sm.newsletter = Undefined THEN Undefined ELSE <<sm.newsletter[1].provider>>

\* mutant of Newsletter: no form on an empty page
NewsletterWhenPosts(ps, sm) == Len(ps) > 0 /\ Truthy(NewsletterProvider(sm))

\* {siteMetadata.newsletter?.provider && (<NewsletterForm />)}
Newsletter(ps, sm) == Truthy(NewsletterProvider(sm))

Home(ps, sm) ==
    [ message      |-> Message(ps),
      cards        |-> Cards(ps, sm),
      allPostsLink |-> AllPostsLink(ps),
      newsletter   |-> Newsletter(ps, sm) ]

----------------------------------------------------------------------------
(* SearchButton *)

\* mutant of SearchButtonWrapper: the branches swapped
SearchButtonWrapperSwapped(sm) ==
    IF sm.search[1].provider = "algolia" THEN "KBarButton" ELSE "AlgoliaButton"

\* siteMetadata.search.provider === 'algolia' ? AlgoliaButton : KBarButton
SearchButtonWrapper(sm) ==
    IF sm.search[1].provider = "algolia" THEN "AlgoliaButton" ELSE "KBarButton"

SearchButton(sm) ==
    IF sm.search # Undefined
       /\ (sm.search[1].provider = "algolia" \/ sm.search[1].provider = "kbar")
    THEN <<[wrapper |-> SearchButtonWrapper(sm), ariaLabel |-> "Search", child |-> "CiSearch"]>>
    ELSE Undefined

----------------------------------------------------------------------------
(* Props of Home in Spec: any sequence over a few post summaries.  Two of   *)
(* them share a slug, two share a date.                                     *)

PostUniverse ==
    { [slug |-> "a", date |-> 2, title |-> "A", summary |-> "sa", tags |-> <<"x">>],
      [slug |-> "b", date |-> 1, title |-> "B", summary |-> "sb", tags |-> <<>>],
      [slug |-> "a", date |-> 1, title |-> "C", summary |-> "sc", tags |-> <<"x", "y">>] }

Init ==
    /\ siteMetadata \in SiteConfigs
    /\ store = <<>>
    /\ posts \in SeqsUpTo(PostUniverse, MaxPosts)
    /\ home = <<>>
    /\ search = <<>>
    /\ pc = "props"
    /\ runs = 0

RenderHome ==
    /\ pc = "props"
    /\ home = <<>>
    /\ home' = <<Home(posts, siteMetadata)>>
    /\ UNCHANGED <<siteMetadata, store, posts, search, pc, runs>>

RenderSearchButton ==
    /\ search = <<>>
    /\ search' = <<SearchButton(siteMetadata)>>
    /\ UNCHANGED <<siteMetadata, store, posts, home, pc, runs>>

Next == RenderHome \/ RenderSearchButton

Spec == Init /\ [][Next]_vars

----------------------------------------------------------------------------
(* Listing Assembler: the non-draft Posts, sorted by date descending, ties  *)
(* in the order the Content Store yields them.                              *)

\* mutant of NonDraft: the drafts kept
NonDraftKeepAll(s) == s

NonDraft(s) == SelectSeq(s, LAMBDA p : ~p.draft)

\* p placed behind every post of the sorted sequence s dated p.date or later
InsertByDateDesc(p, s) ==
    LET k == Cardinality({i \in 1..Len(s) : s[i].date >= p.date})
    IN  SubSeq(s, 1, k) \o <<p>> \o SubSeq(s, k + 1, Len(s))

RECURSIVE SortByDateDesc(_)
SortByDateDesc(s) ==
    IF s = <<>> THEN <<>>
    ELSE InsertByDateDesc(s[Len(s)], SortByDateDesc(SubSeq(s, 1, Len(s) - 1)))

\* mutant of ListingAssembler: oldest first
ListingAssemblerAscending(s) ==
    LET l == SortByDateDesc(NonDraft(s))
    IN  [i \in 1..Len(l) |-> l[Len(l) + 1 - i]]

ListingAssembler(s) == SortByDateDesc(NonDraft(s))

\* mutant of StoreAfterAssembly: the store sorted in place
StoreSortedInPlace(s) == SortByDateDesc(s)

\* the Content Store after the assembler has run: no side effects
StoreAfterAssembly(s) == s

----------------------------------------------------------------------------
(* Content Store: n documents; the slug comes from the storage path, so it  *)
(* is unique; document i is dated i or n + 1 - i, so that stores ordered    *)
(* oldest first, newest first, mixed, and with equal dates all occur.       *)

Document(i, date, draft) ==
    [ slug    |-> "p" \o ToString(i),
      date    |-> date,
      title   |-> "T" \o ToString(i),
      summary |-> "s" \o ToString(i),
      tags    |-> <<"t">>,
      draft   |-> draft ]

Stores ==
    UNION { { [i \in 1..n |-> Document(i, IF m[i] THEN n + 1 - i ELSE i, d[i])]
              : m \in [1..n -> BOOLEAN], d \in [1..n -> BOOLEAN] }
            : n \in 0..MaxStore }

\* SearchButton is not part of the page
PageConfigs == {sm \in SiteConfigs : sm.search = Undefined}

PipelineInit ==
    /\ siteMetadata \in PageConfigs
    /\ store \in Stores
    /\ posts = <<>>
    /\ home = <<>>
    /\ search = <<>>
    /\ pc = "store"
    /\ runs = 0

\* a build/request: assemble the listing and hand it to Home
Page ==
    /\ runs < MaxRuns
    /\ runs' = runs + 1
    /\ posts' = ListingAssembler(store)
    /\ store' = StoreAfterAssembly(store)
    /\ home' = <<>>
    /\ pc' = "props"
    /\ UNCHANGED <<siteMetadata, search>>

PipelineNext == Page \/ RenderHome

PipelineSpec == PipelineInit /\ [][PipelineNext]_vars

----------------------------------------------------------------------------
(* Properties of Home and SearchButton, checked under Spec.                 *)

Rendered == home # <<>>

\* the post a card shows, read back from the card
ShownPost(c) ==
    [slug |-> c.key, date |-> c.dateTime, title |-> c.title,
     summary |-> c.summary, tags |-> c.tags]

\* C1: Home renders exactly min(len(posts), MAX_DISPLAY) cards, MAX_DISPLAY = 5,
\* and the i-th card shows posts[i]: the first MAX_DISPLAY posts in incoming
\* order, none re-sorted, skipped or duplicated.
C1_CardsAreFirstPosts ==
    Rendered =>
        /\ MAX_DISPLAY = 5
        /\ Len(home[1].cards) = Min(Len(posts), 5)
        /\ \A i \in 1..Len(home[1].cards) : ShownPost(home[1].cards[i]) = posts[i]

\* more posts than cards, and the posts out of date order
C1_Witness ==
    /\ Rendered
    /\ Len(posts) > MAX_DISPLAY
    /\ posts[1].date < posts[2].date
    /\ Len(home[1].cards) = MAX_DISPLAY

\* C2: the "All Posts" link to /blog is rendered iff len(posts) > MAX_DISPLAY;
\* with MAX_DISPLAY or fewer posts every post has its card and there is no link.
C2_LinkIffMore ==
    Rendered =>
        /\ (home[1].allPostsLink # Undefined) <=> (Len(posts) > MAX_DISPLAY)
        /\ home[1].allPostsLink # Undefined => home[1].allPostsLink[1].href = "/blog"
        /\ Len(posts) <= MAX_DISPLAY =>
               /\ home[1].allPostsLink = Undefined
               /\ Len(home[1].cards) = Len(posts)

\* exactly MAX_DISPLAY + 1 posts: the link is there
C2_Witness ==
    /\ Rendered
    /\ Len(posts) = MAX_DISPLAY + 1
    /\ home[1].allPostsLink # Undefined

\* C8: SearchButton renders AlgoliaButton for provider 'algolia', KBarButton for
\* provider 'kbar', and nothing when there is no search configuration or the
\* provider is anything else.
C8_SearchButtonByProvider ==
    search # <<>> =>
        LET provider == IF siteMetadata.search = Undefined THEN "none"
                        ELSE siteMetadata.search[1].provider
        IN  /\ provider = "algolia" =>
                search[1] # Undefined /\ search[1][1].wrapper = "AlgoliaButton"
            /\ provider = "kbar" =>
                search[1] # Undefined /\ search[1][1].wrapper = "KBarButton"
            /\ provider \notin {"algolia", "kbar"} => search[1] = Undefined

\* the kbar button rendered
C8_Witness ==
    /\ search # <<>>
    /\ search[1] # Undefined
    /\ search[1][1].wrapper = "KBarButton"
    /\ siteMetadata.search[1].provider = "kbar"

\* post sequences of the three kinds: none, a few, more than MAX_DISPLAY
SamplePosts ==
    LET p == CHOOSE x \in PostUniverse : TRUE
    IN  {<<>>, <<p>>, [i \in 1..(MAX_DISPLAY + 1) |-> p]}

\* C9: the newsletter form is rendered iff a newsletter provider is configured,
\* whatever the posts are, and the configuration does not change the cards,
\* the message or the "All Posts" link.
C9_NewsletterIndependent ==
    Rendered =>
        /\ home[1].newsletter <=>
               (/\ siteMetadata.newsletter # Undefined
                /\ siteMetadata.newsletter[1].provider # "")
        /\ \A ps \in SamplePosts :
               Home(ps, siteMetadata).newsletter = home[1].newsletter
        /\ \A sm \in SiteConfigs :
               /\ Home(posts, sm).cards = home[1].cards
               /\ Home(posts, sm).message = home[1].message
               /\ Home(posts, sm).allPostsLink = home[1].allPostsLink

\* the form on a page without posts
C9_Witness ==
    /\ Rendered
    /\ home[1].newsletter
    /\ posts = <<>>

\* C10: at most MAX_DISPLAY cards; never the message together with the link;
\* cards exactly when there is no message; both links of a card go to
\* /blog/{slug} of the card's own post, and posts sharing a slug each get a card.
C10_RenderOutcome ==
    Rendered =>
        LET cards == home[1].cards
        IN  /\ Len(cards) <= MAX_DISPLAY
            /\ ~(home[1].message # Undefined /\ home[1].allPostsLink # Undefined)
            /\ (cards # <<>>) <=> (home[1].message = Undefined)
            /\ \A i \in 1..Len(cards) :
                   /\ i <= Len(posts)
                   /\ cards[i].titleHref = "/blog/" \o posts[i].slug
                   /\ cards[i].readMoreHref = "/blog/" \o posts[i].slug
            /\ \A i, j \in 1..Min(Len(posts), MAX_DISPLAY) :
                   posts[i].slug = posts[j].slug /\ i # j =>
                       /\ i <= Len(cards) /\ j <= Len(cards)
                       /\ cards[i].title = posts[i].title
                       /\ cards[j].title = posts[j].title

\* two posts with one slug, each with its card
C10_Witness ==
    /\ Rendered
    /\ Len(posts) >= 2
    /\ posts[1].slug = posts[2].slug
    /\ posts[1].title # posts[2].title
    /\ Len(home[1].cards) >= 2

----------------------------------------------------------------------------
(* Properties of the pipeline, checked under PipelineSpec.                  *)

Drafts == {store[i] : i \in {k \in 1..Len(store) : store[k].draft}}

NonDrafts == {store[i] : i \in {k \in 1..Len(store) : ~store[k].draft}}

SlugsOf(S) == {p.slug : p \in S}

CardKeys == {home[1].cards[i].key : i \in 1..Len(home[1].cards)}

\* C3: "No posts found." is rendered iff the posts are empty, then without any
\* card; an empty Content Store renders the message.
C3_MessageIffEmpty ==
    Rendered =>
        /\ (home[1].message = <<"No posts found.">>) <=> (posts = <<>>)
        /\ posts = <<>> => home[1].cards = <<>>
        /\ posts # <<>> => home[1].message = Undefined
        /\ store = <<>> => home[1].message = <<"No posts found.">> /\ home[1].cards = <<>>

\* the page of an empty Content Store
C3_Witness ==
    /\ Rendered
    /\ store = <<>>
    /\ runs > 0
    /\ home[1].message = <<"No posts found.">>

\* C4: no draft is in the listing or on the page: no card shows a draft, the
\* link and the message count the non-draft Posts only, and while they fit
\* every non-draft Post has its card.
C4_NoDrafts ==
    /\ pc = "props" => \A i \in 1..Len(posts) : ~posts[i].draft
    /\ Rendered =>
        /\ CardKeys \cap SlugsOf(Drafts) = {}
        /\ CardKeys \subseteq SlugsOf(NonDrafts)
        /\ (home[1].allPostsLink # Undefined) <=> (Cardinality(NonDrafts) > MAX_DISPLAY)
        /\ (home[1].message # Undefined) <=> (NonDrafts = {})
        /\ Cardinality(NonDrafts) <= MAX_DISPLAY => CardKeys = SlugsOf(NonDrafts)

\* one draft and one non-draft Post: the non-draft one alone is on the page
C4_Witness ==
    /\ Rendered
    /\ Cardinality(Drafts) = 1
    /\ Cardinality(NonDrafts) = 1
    /\ store[1].draft
    /\ Len(home[1].cards) = 1

\* C5: the listing is sorted by date descending and holds exactly the
\* non-draft Posts, each once.
C5_SortedNonDrafts ==
    pc = "props" =>
        /\ \A i \in 1..(Len(posts) - 1) : posts[i].date >= posts[i + 1].date
        /\ Range(posts) = NonDrafts
        /\ Len(posts) = Cardinality(NonDrafts)

\* a store with a draft, and with non-draft Posts the oldest first
C5_Witness ==
    /\ pc = "props"
    /\ Drafts # {}
    /\ Len(posts) >= 3
    /\ \E i, j \in 1..Len(store) :
           i < j /\ ~store[i].draft /\ ~store[j].draft /\ store[i].date < store[j].date

DistinctDates ==
    \A i, j \in 1..Len(store) : i # j => store[i].date # store[j].date

\* the non-draft Posts newer than p
Newer(p) == {q \in NonDrafts : q.date > p.date}

\* C7: with pairwise distinct dates and more than MAX_DISPLAY non-draft Posts,
\* the cards are the MAX_DISPLAY most recent non-draft Posts, newest first,
\* and the "All Posts" link is rendered.
C7_FiveMostRecent ==
    (Rendered /\ DistinctDates /\ Cardinality(NonDrafts) > MAX_DISPLAY) =>
        /\ Len(home[1].cards) = 5
        /\ \A i \in 1..Len(home[1].cards) :
               \E p \in NonDrafts :
                   /\ Cardinality(Newer(p)) = i - 1
                   /\ home[1].cards[i].key = p.slug
                   /\ home[1].cards[i].dateTime = p.date
        /\ home[1].allPostsLink # Undefined

\* such a store that is not stored newest first
C7_Witness ==
    /\ Rendered
    /\ DistinctDates
    /\ Cardinality(NonDrafts) > MAX_DISPLAY
    /\ store[1].date < store[2].date
    /\ home[1].allPostsLink # Undefined

====
